---------------------------- MODULE Spec2Model ----------------------------
(***************************************************************************)
(* Model of the Wind -> qlib normalization pipeline (normalize.py), of the  *)
(* per-symbol branch of fetch_and_save_data and of the code list and the   *)
(* driver loop (main.py).  Spec runs the pipeline on inputs that vary the  *)
(* values, SpecAlign on inputs that vary the dates and the calendar,       *)
(* SpecDriver runs the driver.                                             *)
(*                                                                         *)
(* A table (pandas DataFrame) is a sequence of rows; a row is a function   *)
(* from column names to cells.  The date (the index between set_index and  *)
(* reset_index) is the integer cell "date"; every other cell is a float.   *)
(* A float is an extended rational [n, d]: d > 0 is the finite n/d in      *)
(* lowest terms, [0,0] is NaN, [1,0] is +inf and [-1,0] is -inf, so that   *)
(* division by zero and NaN propagation behave as IEEE arithmetic does     *)
(* (rounding and the sign of zero are not modelled).                       *)
(***************************************************************************)
EXTENDS Integers, Sequences, FiniteSets, TLC

-----------------------------------------------------------------------------
(* Floats *)

NaN == [n |-> 0, d |-> 0]

Abs(x) == IF x < 0 THEN -x ELSE x

Sgn(x) == IF x > 0 THEN 1 ELSE IF x < 0 THEN -1 ELSE 0

RECURSIVE Gcd(_, _)
Gcd(a, b) == IF b = 0 THEN a ELSE Gcd(b, a % b)

Rat(n, d) ==
    IF d = 0 THEN [n |-> Sgn(n), d |-> 0]
    ELSE LET g == Gcd(Abs(n), Abs(d))
         IN  [n |-> (Sgn(d) * n) \div g, d |-> Abs(d) \div g]

Float(k) == [n |-> k, d |-> 1]

IsNaN(x) == x.n = 0 /\ x.d = 0

NotNull(x) == ~IsNaN(x)

Mul(x, y) == IF IsNaN(x) \/ IsNaN(y) THEN NaN ELSE Rat(x.n * y.n, x.d * y.d)

Recip(y) == IF IsNaN(y) THEN NaN ELSE Rat(y.d, y.n)

Div(x, y) == Mul(x, Recip(y))

Sub(x, y) ==
    IF IsNaN(x) \/ IsNaN(y) THEN NaN
    ELSE IF x.d = 0 /\ y.d = 0 THEN (IF x.n = y.n THEN NaN ELSE x)
    ELSE IF x.d = 0 THEN x
    ELSE IF y.d = 0 THEN [n |-> -y.n, d |-> 0]
    ELSE Rat(x.n * y.d - y.n * x.d, x.d * y.d)

(* x <= y; False when either side is NaN, as every float comparison is *)
Leq(x, y) == NotNull(x) /\ NotNull(y) /\ x.n * y.d <= y.n * x.d

Geq(x, y) == Leq(y, x)

-----------------------------------------------------------------------------
(* Tables *)

DATE == "date"

Cols(df) == IF df = <<>> THEN {} ELSE DOMAIN df[1] \ {DATE}

Column(df, c) == [i \in 1..Len(df) |-> df[i][c]]

(* Series.ffill: each null takes the most recent earlier non-null value *)
RECURSIVE ffill(_)
ffill(s) ==
    IF s = <<>> THEN <<>>
    ELSE LET n    == Len(s)
             head == ffill(SubSeq(s, 1, n - 1))
         IN  Append(head, IF IsNaN(s[n]) /\ n > 1 THEN head[n - 1] ELSE s[n])

(* Series.shift(1) *)
shift(s) == [i \in 1..Len(s) |-> IF i = 1 THEN NaN ELSE s[i - 1]]

(* df[c] = s *)
SetColumn(df, c, s) ==
    [i \in 1..Len(df) |->
        [k \in DOMAIN df[i] \cup {c} |-> IF k = c THEN s[i] ELSE df[i][k]]]

(* df.loc[mask, cols] = NaN *)
NullCells(df, mask, cols) ==
    [i \in 1..Len(df) |->
        [k \in DOMAIN df[i] |-> IF mask[i] /\ k \in cols THEN NaN ELSE df[i][k]]]

(* stable ascending sort on the date *)
RECURSIVE InsertByDate(_, _)
InsertByDate(sorted, r) ==
    IF sorted = <<>> THEN <<r>>
    ELSE IF sorted[Len(sorted)][DATE] <= r[DATE] THEN Append(sorted, r)
    ELSE Append(InsertByDate(SubSeq(sorted, 1, Len(sorted) - 1), r), sorted[Len(sorted)])

RECURSIVE SortByDate(_)
SortByDate(df) ==
    IF df = <<>> THEN <<>>
    ELSE InsertByDate(SortByDate(SubSeq(df, 1, Len(df) - 1)), df[Len(df)])

Dates(df) == {df[i][DATE] : i \in 1..Len(df)}

SetMin(S) == CHOOSE x \in S : \A y \in S : x <= y

SetMax(S) == CHOOSE x \in S : \A y \in S : y <= x

-----------------------------------------------------------------------------
(* Field mapping *)

WIND_FIELD_MAPPING ==
    [TRADE_DT |-> "date", S_DQ_OPEN |-> "open", S_DQ_HIGH |-> "high",
     S_DQ_LOW |-> "low", S_DQ_CLOSE |-> "close", S_DQ_VOLUME |-> "volume",
     S_DQ_AMOUNT |-> "amount", S_DQ_ADJCLOSE |-> "adjclose"]

COLUMNS == {"open", "close", "high", "low", "volume"}

Renamed(c) == IF c \in DOMAIN WIND_FIELD_MAPPING THEN WIND_FIELD_MAPPING[c] ELSE c

(* rename the vendor columns that are present, drop S_INFO_WINDCODE *)
map_wind_fields(df) ==
    [i \in 1..Len(df) |->
        LET kept == DOMAIN df[i] \ {"S_INFO_WINDCODE"}
        IN  [k \in {Renamed(c) : c \in kept} |->
                df[i][CHOOSE c \in kept : Renamed(c) = k]]]

-----------------------------------------------------------------------------
(* Trading calendar *)

NoCalendar == [isNone |-> TRUE, list |-> <<>>]

(* A calendar file is [exists, lines]: its non-blank lines, each a date, *)
(* in file order.  The list is the parsed lines, as they come.           *)
_load_calendar(file) ==
    IF ~file.exists THEN NoCalendar ELSE [isNone |-> FALSE, list |-> file.lines]

-----------------------------------------------------------------------------
(* Calendar alignment *)

(* df[~df.index.duplicated(keep="first")] *)
RECURSIVE DropDuplicates(_)
DropDuplicates(df) ==
    IF df = <<>> THEN <<>>
    ELSE LET n    == Len(df)
             head == SubSeq(df, 1, n - 1)
         IN  IF \E j \in 1..(n - 1) : df[j][DATE] = df[n][DATE]
             THEN DropDuplicates(head)
             ELSE Append(DropDuplicates(head), df[n])

IsMonotonicIncreasing(idx) == \A i \in 1..(Len(idx) - 1) : idx[i] <= idx[i + 1]

IsMonotonicDecreasing(idx) == \A i \in 1..(Len(idx) - 1) : idx[i] >= idx[i + 1]

KeyError == -1

(* Index.get_slice_bound: the 0-based position bounding `label` on `side`, *)
(* or KeyError.  A label in the index bounds at its first (left) or after  *)
(* its last (right) occurrence when its occurrences are contiguous; a     *)
(* label not in the index is located by searchsorted on a monotonic index. *)
get_slice_bound(idx, label, side) ==
    LET n    == Len(idx)
        hits == {i \in 1..n : idx[i] = label}
        lt   == Cardinality({i \in 1..n : idx[i] < label})
        le   == Cardinality({i \in 1..n : idx[i] <= label})
    IN  IF hits # {}
        THEN IF \A i \in SetMin(hits)..SetMax(hits) : i \in hits
             THEN (IF side = "left" THEN SetMin(hits) - 1 ELSE SetMax(hits))
             ELSE KeyError
        ELSE IF IsMonotonicIncreasing(idx)
             THEN (IF side = "left" THEN lt ELSE le)
        ELSE IF IsMonotonicDecreasing(idx)
             THEN (IF side = "left" THEN n - le ELSE n - lt)
        ELSE KeyError

(* pd.DataFrame(index=calendar).loc[lo:hi].index, or <<KeyError>> *)
CalendarSlice(calendar, lo, hi) ==
    LET start == get_slice_bound(calendar, lo, "left")
        stop  == get_slice_bound(calendar, hi, "right")
    IN  IF start = KeyError \/ stop = KeyError THEN <<KeyError>>
        ELSE IF start >= stop THEN <<>>
        ELSE SubSeq(calendar, start + 1, stop)

NullRow(d, cols) == [k \in cols \cup {DATE} |-> IF k = DATE THEN d ELSE NaN]

(* reindex(target, method="ffill"): a missing date takes the latest earlier row *)
reindex_ffill(df, target) ==
    [t \in 1..Len(target) |->
        LET earlier == {i \in 1..Len(df) : df[i][DATE] <= target[t]}
        IN  IF earlier = {} THEN NullRow(target[t], Cols(df))
            ELSE LET src == CHOOSE i \in earlier :
                                \A j \in earlier : df[j][DATE] <= df[i][DATE]
                 IN  [df[src] EXCEPT ![DATE] = target[t]]]

(* df.reindex(target): one row per target label, the row of df with that *)
(* date or an all-null row; the index of df is unique here               *)
reindex(df, target) ==
    [t \in 1..Len(target) |->
        IF target[t] \in Dates(df)
        THEN df[CHOOSE i \in 1..Len(df) : df[i][DATE] = target[t]]
        ELSE NullRow(target[t], Cols(df))]

(* steps 3-6 of normalize_wind_data on the field-mapped table: <<"ok", table>> *)
(* or <<"KeyError", <<>> >> when the calendar slice raises                   *)
Align(mapped, calendar) ==
    LET dedup == DropDuplicates(mapped)
    IN  IF calendar.isNone THEN <<"ok", SortByDate(dedup)>>
        ELSE LET target == CalendarSlice(calendar.list, SetMin(Dates(dedup)),
                                         SetMax(Dates(dedup)))
             IN  IF target = <<KeyError>> THEN <<"KeyError", <<>> >>
                 ELSE <<"ok", SortByDate(reindex(dedup, target))>>

-----------------------------------------------------------------------------
(* Masking, change, outlier correction *)

InvalidVolume(r) == Leq(r["volume"], Float(0)) \/ IsNaN(r["volume"])

(* (df["volume"] <= 0) | np.isnan(df["volume"]) *)
VolumeMask(df) == [i \in 1..Len(df) |-> InvalidVolume(df[i])]

NoSeed == [isNone |-> TRUE, value |-> NaN]

Seed(v) == [isNone |-> FALSE, value |-> v]

(* the change on the close column as it is, without the forward fill *)
calc_change_NoFfill(df, seed) ==
    LET _tmp_series       == Column(df, "close")
        _tmp_shift_series ==
            [i \in 1..Len(df) |->
                IF i = 1 /\ ~seed.isNone THEN seed.value ELSE shift(_tmp_series)[i]]
    IN  [i \in 1..Len(df) |-> Sub(Div(_tmp_series[i], _tmp_shift_series[i]), Float(1))]

calc_change(df, seed) ==
    LET _tmp_series       == ffill(Column(df, "close"))
        _tmp_shift_series ==
            [i \in 1..Len(df) |->
                IF i = 1 /\ ~seed.isNone THEN seed.value ELSE shift(_tmp_series)[i]]
    IN  [i \in 1..Len(df) |-> Sub(Div(_tmp_series[i], _tmp_shift_series[i]), Float(1))]

BandLow == 89

BandHigh == 111

(* the band with its bounds excluded *)
Flagged_Strict(c) ==
    /\ Geq(c, Float(BandLow)) /\ c # Float(BandLow)
    /\ Leq(c, Float(BandHigh)) /\ c # Float(BandHigh)

Flagged(c) == Geq(c, Float(BandLow)) /\ Leq(c, Float(BandHigh))

(* the mask with the upper bound excluded *)
OutlierMask_UpperOpen(change_series) ==
    [i \in 1..Len(change_series) |->
        Flagged(change_series[i]) /\ change_series[i] # Float(BandHigh)]

(* _mask = (change_series >= 89) & (change_series <= 111) *)
OutlierMask(change_series) == [i \in 1..Len(change_series) |-> Flagged(change_series[i])]

PRICE_COLS == {"high", "close", "low", "open", "adjclose"}

ScaleDown == 100

(* the correction applied to close and adjclose only *)
CorrectOutliers_CloseOnly(df, _mask) ==
    [i \in 1..Len(df) |->
        [k \in DOMAIN df[i] |->
            IF _mask[i] /\ k \in {"close", "adjclose"} THEN Div(df[i][k], Float(ScaleDown))
            ELSE df[i][k]]]

(* df.loc[_mask, available_cols] = df.loc[_mask, available_cols] / 100 *)
CorrectOutliers(df, _mask) ==
    [i \in 1..Len(df) |->
        [k \in DOMAIN df[i] |->
            IF _mask[i] /\ k \in PRICE_COLS THEN Div(df[i][k], Float(ScaleDown))
            ELSE df[i][k]]]

MaxCount == 10

-----------------------------------------------------------------------------
(* Adjustment and rebasing *)

(* the factor as computed row by row, not forward-filled *)
adjusted_price_NoFfill(df) ==
    IF df = <<>> THEN df
    ELSE LET factor ==
                 IF "adjclose" \in Cols(df)
                 THEN [i \in 1..Len(df) |-> Div(df[i]["adjclose"], df[i]["close"])]
                 ELSE [i \in 1..Len(df) |-> Float(1)]
         IN  [i \in 1..Len(df) |->
                 [k \in DOMAIN df[i] \cup {"factor"} |->
                     IF k = "factor" THEN factor[i]
                     ELSE IF k \in COLUMNS
                          THEN (IF k = "volume" THEN Div(df[i][k], factor[i])
                                ELSE Mul(df[i][k], factor[i]))
                     ELSE df[i][k]]]

(* the volume multiplied by the factor like the prices *)
adjusted_price_MulVolume(df) ==
    IF df = <<>> THEN df
    ELSE LET factor ==
                 IF "adjclose" \in Cols(df)
                 THEN ffill([i \in 1..Len(df) |-> Div(df[i]["adjclose"], df[i]["close"])])
                 ELSE [i \in 1..Len(df) |-> Float(1)]
         IN  [i \in 1..Len(df) |->
                 [k \in DOMAIN df[i] \cup {"factor"} |->
                     IF k = "factor" THEN factor[i]
                     ELSE IF k \in COLUMNS THEN Mul(df[i][k], factor[i])
                     ELSE df[i][k]]]

(* the factor taken as close / adjclose *)
adjusted_price_InverseFactor(df) ==
    IF df = <<>> THEN df
    ELSE LET factor ==
                 IF "adjclose" \in Cols(df)
                 THEN ffill([i \in 1..Len(df) |-> Div(df[i]["close"], df[i]["adjclose"])])
                 ELSE [i \in 1..Len(df) |-> Float(1)]
         IN  [i \in 1..Len(df) |->
                 [k \in DOMAIN df[i] \cup {"factor"} |->
                     IF k = "factor" THEN factor[i]
                     ELSE IF k \in COLUMNS
                          THEN (IF k = "volume" THEN Div(df[i][k], factor[i])
                                ELSE Mul(df[i][k], factor[i]))
                     ELSE df[i][k]]]

(* adjusted_price after the empty check: the factor column, then the *)
(* COLUMNS that are present scaled by it                             *)
adjusted_price(df) ==
    IF df = <<>> THEN df
    ELSE LET factor ==
                 IF "adjclose" \in Cols(df)
                 THEN ffill([i \in 1..Len(df) |-> Div(df[i]["adjclose"], df[i]["close"])])
                 ELSE [i \in 1..Len(df) |-> Float(1)]
         IN  [i \in 1..Len(df) |->
                 [k \in DOMAIN df[i] \cup {"factor"} |->
                     IF k = "factor" THEN factor[i]
                     ELSE IF k \in COLUMNS
                          THEN (IF k = "volume" THEN Div(df[i][k], factor[i])
                                ELSE Mul(df[i][k], factor[i]))
                     ELSE df[i][k]]]

(* df["close"].iloc[0] without the slice from first_valid_index() *)
_get_first_close_row0(df) == df[1]["close"]

(* the close at first_valid_index(), or the close of row 0 when no close is valid *)
_get_first_close(df) ==
    LET valid == {i \in 1..Len(df) : NotNull(df[i]["close"])}
    IN  IF valid = {} THEN df[1]["close"] ELSE df[SetMin(valid)]["close"]

SKIP_COLS == {"adjclose", "change", DATE}

_manual_adj_data(df) ==
    IF df = <<>> THEN df
    ELSE LET sorted == SortByDate(df)
             _close == _get_first_close(sorted)
         IN  [i \in 1..Len(sorted) |->
                 [k \in DOMAIN sorted[i] |->
                     IF k \in SKIP_COLS THEN sorted[i][k]
                     ELSE IF k = "volume" THEN Mul(sorted[i][k], _close)
                     ELSE Div(sorted[i][k], _close)]]

-----------------------------------------------------------------------------
(* The code list (main.py, test_unique_codes.py) *)

(* A code file is [exists, rows]; a row is the sequence of its cells as     *)
(* csv.reader splits it, <<>> for an empty line; only the first cell is     *)
(* read.  A cell is [pad, text]: text without surrounding blanks, pad when  *)
(* the cell has blanks around it.                                           *)
Cell(pad, text) == [pad |-> pad, text |-> text]

strip(cell) == cell.text

(* str.lower on the texts of the model *)
lower(s) ==
    CASE s = "Symbol"    -> "symbol"
      [] s = "SZ000001"  -> "sz000001"
      [] s = "SH600000"  -> "sh600000"
      [] s = "000001.SZ" -> "000001.sz"
      [] OTHER           -> s

(* the header words of the test that are texts of the model *)
HEADER_WORDS == {"symbol", "ticker"}

IsHeader(symbol) == lower(symbol) \in HEADER_WORDS

(* 'SZ000001' -> '000001.SZ', 'SH600000' -> '600000.SH'; a symbol with a *)
(* dot, or without an SZ/SH prefix, is kept                             *)
symbol_fmt(symbol) ==
    CASE symbol = "SZ000001" -> "000001.SZ"
      [] symbol = "SH600000" -> "600000.SH"
      [] OTHER               -> symbol

fixed_start_date == "2008-01-01"

fixed_end_date == "2025-08-01"

Record(symbol) ==
    [symbol |-> symbol_fmt(symbol), start_date |-> fixed_start_date,
     end_date |-> fixed_end_date, original_symbol |-> symbol]

(* the loop without the unique_symbols test: one record per data row *)
RECURSIVE ReadLoop_NoDedup(_, _, _)
ReadLoop_NoDedup(rows, unique_symbols, results) ==
    IF rows = <<>> THEN results
    ELSE LET row == Head(rows)
         IN  IF row = <<>> \/ IsHeader(strip(row[1]))
             THEN ReadLoop_NoDedup(Tail(rows), unique_symbols, results)
             ELSE ReadLoop_NoDedup(Tail(rows), unique_symbols,
                                   Append(results, Record(strip(row[1]))))

(* the loop of get_unique_csi300_codes over the rows that are left *)
RECURSIVE ReadLoop(_, _, _)
ReadLoop(rows, unique_symbols, results) ==
    IF rows = <<>> THEN results
    ELSE LET row    == Head(rows)
             symbol == strip(row[1])
         IN  IF row = <<>> \/ IsHeader(symbol)
             THEN ReadLoop(Tail(rows), unique_symbols, results)
             ELSE IF symbol \notin unique_symbols
             THEN ReadLoop(Tail(rows), unique_symbols \cup {symbol},
                           Append(results, Record(symbol)))
             ELSE ReadLoop(Tail(rows), unique_symbols, results)

get_unique_csi300_codes(file) == ReadLoop(file.rows, {}, <<>>)

RECURSIVE AnalyzeLoop(_, _, _)
AnalyzeLoop(rows, all_codes, unique_codes) ==
    IF rows = <<>>
    THEN [total_records |-> Len(all_codes), unique_codes |-> Cardinality(unique_codes),
          duplicate_count |-> Len(all_codes) - Cardinality(unique_codes)]
    ELSE LET row == Head(rows)
         IN  IF row = <<>> \/ IsHeader(strip(row[1]))
             THEN AnalyzeLoop(Tail(rows), all_codes, unique_codes)
             ELSE AnalyzeLoop(Tail(rows), Append(all_codes, strip(row[1])),
                              unique_codes \cup {strip(row[1])})

analyze_csi300_codes(file) == AnalyzeLoop(file.rows, <<>>, {})

(* fetch_and_save_data by the branch it takes: what it returns *)
FetchOutcomes ==
    {"connect_raises", "run_raises", "no_data", "normalized", "normalized_empty",
     "normalize_raises", "save_raises"}

fetch_and_save_data(outcome) ==
    IF outcome \in {"normalized", "normalized_empty", "normalize_raises"} THEN "data_to_save"
    ELSE "None"

(* the failure is logged but not added to the list *)
log_stock_failure_NotListed(failed, item) == failed

(* logger.log_stock_failure: the code is added to failed_codes *)
log_stock_failure(failed, item) ==
    Append(failed, [symbol |-> item.symbol, original_symbol |-> item.original_symbol])

-----------------------------------------------------------------------------
(* Inputs *)

WINDCODE == "000001.SZ"

(* one vendor row; open, high and low share the value px *)
WindRow(d, px, c, v, a) ==
    [S_INFO_WINDCODE |-> WINDCODE, TRADE_DT |-> d, S_DQ_OPEN |-> px, S_DQ_HIGH |-> px,
     S_DQ_LOW |-> px, S_DQ_CLOSE |-> c, S_DQ_VOLUME |-> v, S_DQ_AMOUNT |-> a]

WithAdj(r, adj) ==
    [k \in DOMAIN r \cup {"S_DQ_ADJCLOSE"} |-> IF k = "S_DQ_ADJCLOSE" THEN adj ELSE r[k]]

Level == 10

Vol == 100

Amt == 5

MaxAlignRows == 2

MaxDate == 3

MaxCalLen == 3

MaxRows == 2

LadderLen == 12

SeqsUpTo(S, n) == UNION {[1..k -> S] : k \in 0..n}

AbsentFile == [exists |-> FALSE, lines |-> <<>>]

CalendarFiles ==
    {AbsentFile} \cup
    {[exists |-> TRUE, lines |-> l] : l \in SeqsUpTo(1..MaxDate, MaxCalLen) \ {<<>>}}

Input(raw, file, seed) == [raw |-> raw, file |-> file, seed |-> seed]

(* valid rows on arbitrary dates: row i closes at Level * i, adjclose is twice the close *)
AlignTables ==
    {[i \in 1..Len(ds) |->
         WithAdj(WindRow(ds[i], Float(Level * i), Float(Level * i), Float(Vol), Float(Amt)),
                 Float(2 * Level * i))]
     : ds \in SeqsUpTo(1..MaxDate, MaxAlignRows)}

AlignInputs == {Input(t, f, NoSeed) : t \in AlignTables, f \in CalendarFiles}

ValueCloses == {NaN, Float(0), Float(Level), Float(100 * Level)}

ValueVolumes == {NaN, Float(0), Float(Vol)}

ValueAdjs == {NaN, Float(2 * Level)}

ValueCells == ValueCloses \X ValueVolumes \X ValueAdjs

(* consecutive dates; null, zero, normal and 100x closes; null, zero and valid volumes *)
ValueRow(i, cell, adj) ==
    LET c  == cell[1]
        px == IF IsNaN(c) \/ c.n = 0 THEN Float(Level) ELSE c
        r  == WindRow(i, px, c, cell[2], Float(Amt))
    IN  IF adj THEN WithAdj(r, cell[3]) ELSE r

ValueTables(adj) ==
    {[i \in 1..Len(cs) |-> ValueRow(i, cs[i], adj)]
     : cs \in SeqsUpTo(IF adj THEN ValueCells ELSE ValueCloses \X ValueVolumes \X {NaN}, MaxRows)}

(* last_close is given only with tables that have no adjclose column *)
ValueInputs ==
    {Input(t, AbsentFile, NoSeed) : t \in ValueTables(TRUE) \cup ValueTables(FALSE)}
        \cup {Input(t, AbsentFile, Seed(Float(Level))) : t \in ValueTables(FALSE)}

(* long valid series: up to MaxLead rows at the normal level, a run of rows at *)
(* 100 times it, up to MaxLead rows at the normal level again                  *)
MaxLead == 1

LadderCloses ==
    {[i \in 1..(a + m + b) |-> IF i > a /\ i <= a + m THEN 100 * Level ELSE Level]
     : <<a, m, b>> \in {t \in (0..MaxLead) \X (0..LadderLen) \X (0..MaxLead)
                          : t[1] + t[2] + t[3] <= LadderLen}}

LadderTables ==
    {[i \in 1..Len(cs) |->
         WithAdj(WindRow(i, Float(cs[i]), Float(cs[i]), Float(Vol), Float(Amt)), Float(cs[i]))]
     : cs \in LadderCloses}

LadderInputs == {Input(t, AbsentFile, NoSeed) : t \in LadderTables}

(* a second close whose change is 88, 89, 111 or 112 *)
BandCloses == {(BandLow + d) * Level : d \in {0, 1}} \cup {(BandHigh + d) * Level : d \in {1, 2}}

BandTables ==
    {<<WindRow(1, Float(Level), Float(Level), Float(Vol), Float(Amt)),
       WindRow(2, Float(c), Float(c), Float(Vol), Float(Amt))>> : c \in BandCloses}

BandInputs == {Input(t, AbsentFile, NoSeed) : t \in BandTables}

(* adjclose equal to close on every row: null, zero or the normal level; *)
(* consecutive dates, valid volumes                                      *)
EqualCloses == {NaN, Float(0), Float(Level)}

EqualAdjTables ==
    {[i \in 1..Len(cs) |->
         WithAdj(WindRow(i, Float(Level), cs[i], Float(Vol), Float(Amt)), cs[i])]
     : cs \in SeqsUpTo(EqualCloses, MaxRows)}

EqualAdjInputs == {Input(t, AbsentFile, NoSeed) : t \in EqualAdjTables}

(* the end-to-end scenario: 20240102, 20240103, 20240105 at close 10, volume 100, *)
(* no adjclose, and a calendar that has 20240104                                *)
ScenarioDates == <<20240102, 20240103, 20240105>>

ScenarioRaw ==
    [i \in 1..3 |-> WindRow(ScenarioDates[i], Float(10), Float(10), Float(100), Float(Amt))]

ScenarioFile ==
    [exists |-> TRUE, lines |-> <<20240101, 20240102, 20240103, 20240104, 20240105, 20240108>>]

(* the same dates out of order, without the first raw date *)
ShuffledFile == [exists |-> TRUE, lines |-> <<20240103, 20240101, 20240108>>]

ScenarioInputs ==
    {Input(ScenarioRaw, ScenarioFile, NoSeed), Input(ScenarioRaw, ShuffledFile, NoSeed)}

(* the inputs that vary the values, and those that vary the dates and the calendar *)
Inputs == ValueInputs \cup LadderInputs \cup BandInputs \cup EqualAdjInputs \cup ScenarioInputs

CalendarInputs == AlignInputs \cup ScenarioInputs

MaxFileRows == 4

CodeCells ==
    {Cell(FALSE, "SZ000001"), Cell(TRUE, "SZ000001"), Cell(FALSE, "SH600000"),
     Cell(FALSE, "000001.SZ"), Cell(FALSE, "Symbol")}

CodeRows == {<<>>} \cup {<<c>> : c \in CodeCells}

CodeFiles ==
    {[exists |-> FALSE, rows |-> <<>>]} \cup
    {[exists |-> TRUE, rows |-> r] : r \in SeqsUpTo(CodeRows, MaxFileRows)}

-----------------------------------------------------------------------------
(* The pipeline *)

VARIABLES
    raw_data,       \* the table the caller passes to normalize
    calendar_list,  \* self._calendar_list
    last_close,     \* the last_close argument
    arg,            \* the table passed to the stage that last ran
    df,             \* the stage's working table, its result once it returned
    pc,             \* position in normalize / fetch_and_save_data
    count,          \* _count
    change_series,  \* change_series of the last detection
    mask,           \* _mask of the last detection
    warned,         \* the persistent-anomaly warning was printed
    exc,            \* the exception raised, "" if none
    data_to_save,   \* what fetch_and_save_data saves
    df_id,          \* identity of the object df names
    arg_id,         \* identity of the object passed to the stage that last ran
    arg_now,        \* what the passed object holds now
    ids,            \* number of table objects created so far
    code_file,      \* code/csi300.txt
    codes,          \* codes, the list the driver walks
    main_pc,        \* position in the __main__ block
    processed,      \* the items passed to fetch_and_save_data so far, in order
    success_count,
    failed_count,
    failed_codes    \* logger.failed_codes

pipe_vars == <<raw_data, calendar_list, last_close, arg, df, pc, count, change_series, mask,
               warned, exc, data_to_save, df_id, arg_id, arg_now, ids>>

driver_vars == <<code_file, codes, main_pc, processed, success_count, failed_count, failed_codes>>

vars == <<pipe_vars, driver_vars>>

(* the driver before its start, with the logger as constructed *)
DriverStart(file) ==
    /\ code_file = file
    /\ codes = <<>>
    /\ main_pc = "start"
    /\ processed = <<>>
    /\ success_count = 0
    /\ failed_count = 0
    /\ failed_codes = <<>>

(* the caller's table is object 0; df.copy(), reset_index() and every other *)
(* call that returns a table create the next object                         *)
RawId == 0

NewObject(n) == n + 1

(* what the object `passed` holds after an in-place operation on `target` *)
AfterInPlace(target, passed, before, after) == IF target = passed THEN after ELSE before

InitWith(inputs) ==
    \E in \in inputs :
        /\ raw_data = in.raw
        /\ calendar_list = _load_calendar(in.file)
        /\ last_close = in.seed
        /\ arg = in.raw
        /\ df = in.raw
        /\ pc = "start"
        /\ count = 0
        /\ change_series = <<>>
        /\ mask = <<>>
        /\ warned = FALSE
        /\ exc = ""
        /\ data_to_save = "unset"
        /\ df_id = RawId
        /\ arg_id = RawId
        /\ arg_now = in.raw
        /\ ids = 0
        /\ DriverStart([exists |-> FALSE, rows |-> <<>>])

Init == InitWith(Inputs)

InitAlign == InitWith(CalendarInputs)

(* normalize_wind_data, lines 224-257: empty check, field mapping, date index, *)
(* deduplication, reindexing on the calendar, sort                            *)
NwdAlign ==
    /\ pc = "start"
    /\ arg' = raw_data
    /\ arg_id' = df_id
    /\ LET res == Align(map_wind_fields(raw_data), calendar_list)
           own == NewObject(ids)
       IN  IF raw_data = <<>>
           THEN /\ pc' = "nwd_returned"
                /\ arg_now' = raw_data
                /\ UNCHANGED <<df, exc, df_id, ids>>
           ELSE /\ pc' = IF res[1] = "ok" THEN "aligned" ELSE "raised"
                /\ df' = res[2]
                /\ exc' = IF res[1] = "ok" THEN "" ELSE res[1]
                /\ df_id' = own
                /\ ids' = own
                /\ arg_now' = AfterInPlace(own, df_id, raw_data, res[2])
    /\ UNCHANGED <<raw_data, calendar_list, last_close, count, change_series, mask, warned, data_to_save>>
    /\ UNCHANGED driver_vars

(* the invalid-volume mask applied before the forward fill of close *)
FfillAndMask_MaskFirst(t) ==
    LET masked == NullCells(t, VolumeMask(t), Cols(t))
    IN  IF "close" \in Cols(masked)
        THEN SetColumn(masked, "close", ffill(Column(masked, "close")))
        ELSE masked

(* lines 262-273: forward fill of close, first invalid-volume mask, _count = 0 *)
FfillAndMask(t) ==
    LET filled == IF "close" \in Cols(t) THEN SetColumn(t, "close", ffill(Column(t, "close")))
                  ELSE t
    IN  NullCells(filled, VolumeMask(filled), Cols(filled))

NwdFfillMask ==
    /\ pc = "aligned"
    /\ df' = FfillAndMask(df)
    /\ arg_now' = AfterInPlace(df_id, arg_id, arg_now, df')
    /\ count' = 0
    /\ pc' = "loop"
    /\ UNCHANGED <<raw_data, calendar_list, last_close, arg, change_series, mask, warned, exc, data_to_save,
                   df_id, arg_id, ids>>
    /\ UNCHANGED driver_vars

(* the cutoff one pass early *)
Exhausted_OffByOne(n) == n >= MaxCount - 1

(* _count >= 10, line 283 *)
Exhausted(n) == n >= MaxCount

(* one turn of the while loop, lines 274-285 *)
NwdOutlierPass ==
    /\ pc = "loop"
    /\ IF df = <<>> /\ ~last_close.isNone
       THEN /\ pc' = "raised"
            /\ exc' = "IndexError"
            /\ UNCHANGED <<df, count, change_series, mask, warned, arg_now>>
       ELSE LET change == calc_change(df, last_close)
                _mask  == OutlierMask(change)
                any    == \E i \in 1..Len(_mask) : _mask[i]
            IN  /\ change_series' = change
                /\ mask' = _mask
                /\ df' = IF any THEN CorrectOutliers(df, _mask) ELSE df
                /\ count' = IF any THEN count + 1 ELSE count
                /\ warned' = (any /\ Exhausted(count + 1))
                /\ pc' = IF ~any \/ Exhausted(count + 1) THEN "looped" ELSE "loop"
                /\ exc' = exc
                /\ arg_now' = AfterInPlace(df_id, arg_id, arg_now, df')
    /\ UNCHANGED <<raw_data, calendar_list, last_close, arg, data_to_save, df_id, arg_id, ids>>
    /\ UNCHANGED driver_vars

(* the second mask without "change" among its columns *)
ChangeAndMask_KeepsChange(t, seed) ==
    LET withChange == SetColumn(t, "change", calc_change(t, seed))
    IN  NullCells(withChange, VolumeMask(withChange), COLUMNS \cap Cols(withChange))

(* lines 288-298: the change column, second invalid-volume mask, reset_index *)
ChangeAndMask(t, seed) ==
    LET withChange == SetColumn(t, "change", calc_change(t, seed))
    IN  NullCells(withChange, VolumeMask(withChange),
                  (COLUMNS \cup {"change"}) \cap Cols(withChange))

(* the while loop of lines 274-285 run to its end, n passes made so far *)
RECURSIVE OutlierLoop(_, _, _)
OutlierLoop(t, seed, n) ==
    LET _mask == OutlierMask(calc_change(t, seed))
    IN  IF \A i \in 1..Len(_mask) : ~_mask[i] THEN t
        ELSE IF Exhausted(n + 1) THEN CorrectOutliers(t, _mask)
        ELSE OutlierLoop(CorrectOutliers(t, _mask), seed, n + 1)

(* normalize without its adjusted_price stage *)
normalize_NoAdjust(t, calendar, seed) ==
    IF t = <<>> THEN <<"ok", t>>
    ELSE LET res == Align(map_wind_fields(t), calendar)
         IN  IF res[1] # "ok" THEN res
             ELSE IF res[2] = <<>> /\ ~seed.isNone THEN <<"IndexError", <<>> >>
             ELSE <<"ok", _manual_adj_data(
                             ChangeAndMask(OutlierLoop(FfillAndMask(res[2]), seed, 0), seed))>>

(* normalize as one call: <<"ok", table>> or the exception it raises *)
normalize(t, calendar, seed) ==
    IF t = <<>> THEN <<"ok", t>>
    ELSE LET res == Align(map_wind_fields(t), calendar)
         IN  IF res[1] # "ok" THEN res
             ELSE IF res[2] = <<>> /\ ~seed.isNone THEN <<"IndexError", <<>> >>
             ELSE <<"ok", _manual_adj_data(adjusted_price(
                             ChangeAndMask(OutlierLoop(FfillAndMask(res[2]), seed, 0), seed)))>>

NwdChange ==
    /\ pc = "looped"
    /\ df' = ChangeAndMask(df, last_close)
    /\ arg_now' = AfterInPlace(df_id, arg_id, arg_now, df')
    /\ df_id' = NewObject(ids)
    /\ ids' = NewObject(ids)
    /\ pc' = "nwd_returned"
    /\ UNCHANGED <<raw_data, calendar_list, last_close, arg, count, change_series, mask, warned, exc,
                   data_to_save, arg_id>>
    /\ UNCHANGED driver_vars

AdjustedPrice ==
    /\ pc = "nwd_returned"
    /\ arg' = df
    /\ arg_id' = df_id
    /\ df' = adjusted_price(df)
    /\ LET own == NewObject(ids)
       IN  IF df = <<>>
           THEN /\ arg_now' = df
                /\ UNCHANGED <<df_id, ids>>
           ELSE /\ arg_now' = AfterInPlace(own, df_id, df, df')
                /\ df_id' = NewObject(own)
                /\ ids' = NewObject(own)
    /\ pc' = "adjusted"
    /\ UNCHANGED <<raw_data, calendar_list, last_close, count, change_series, mask, warned, exc, data_to_save>>
    /\ UNCHANGED driver_vars

ManualAdj ==
    /\ pc = "adjusted"
    /\ arg' = df
    /\ arg_id' = df_id
    /\ df' = _manual_adj_data(df)
    /\ LET own == NewObject(ids)
       IN  IF df = <<>>
           THEN /\ arg_now' = df
                /\ UNCHANGED <<df_id, ids>>
           ELSE /\ arg_now' = AfterInPlace(own, df_id, df, df')
                /\ df_id' = NewObject(own)
                /\ ids' = NewObject(own)
    /\ pc' = "returned"
    /\ UNCHANGED <<raw_data, calendar_list, last_close, count, change_series, mask, warned, exc, data_to_save>>
    /\ UNCHANGED driver_vars

(* normalize called again, on the table a call without last_close returned *)
Renormalize ==
    /\ pc = "returned"
    /\ last_close.isNone
    /\ arg' = df
    /\ arg_id' = df_id
    /\ arg_now' = df
    /\ df_id' = IF df = <<>> THEN df_id ELSE NewObject(ids)
    /\ ids' = IF df = <<>> THEN ids ELSE NewObject(ids)
    /\ LET res == normalize(df, calendar_list, last_close)
       IN  /\ df' = res[2]
           /\ pc' = IF res[1] = "ok" THEN "renormalized" ELSE "rerun_raised"
           /\ exc' = IF res[1] = "ok" THEN "" ELSE res[1]
    /\ UNCHANGED <<raw_data, calendar_list, last_close, count, change_series, mask, warned, data_to_save>>
    /\ UNCHANGED driver_vars

(* fetch_and_save_data calls normalize(raw_data) on a non-empty table, without *)
(* last_close; any other run is a direct call and ends when normalize does     *)
ByDriver == raw_data # <<>> /\ last_close.isNone

(* main.py lines 189-204: the normalized table unless it is empty *)
SaveResult ==
    /\ pc = "returned"
    /\ ByDriver
    /\ data_to_save' = IF df # <<>> THEN "normalized_data" ELSE "raw_data"
    /\ pc' = "saved"
    /\ UNCHANGED <<raw_data, calendar_list, last_close, arg, df, count, change_series, mask, warned, exc,
                   df_id, arg_id, arg_now, ids>>
    /\ UNCHANGED driver_vars

(* main.py lines 206-213: an exception of normalize is logged, the raw table saved *)
SaveAfterError ==
    /\ pc = "raised"
    /\ ByDriver
    /\ data_to_save' = "raw_data"
    /\ pc' = "saved"
    /\ UNCHANGED <<raw_data, calendar_list, last_close, arg, df, count, change_series, mask, warned, exc,
                   df_id, arg_id, arg_now, ids>>
    /\ UNCHANGED driver_vars

Next ==
    \/ NwdAlign
    \/ NwdFfillMask
    \/ NwdOutlierPass
    \/ NwdChange
    \/ AdjustedPrice
    \/ ManualAdj
    \/ Renormalize
    \/ SaveResult
    \/ SaveAfterError

Spec == Init /\ [][Next]_vars

SpecAlign == InitAlign /\ [][Next]_vars

-----------------------------------------------------------------------------
(* The driver (main.py, __main__) *)

InitDriver ==
    /\ raw_data = <<>>
    /\ calendar_list = NoCalendar
    /\ last_close = NoSeed
    /\ arg = <<>>
    /\ df = <<>>
    /\ pc = "idle"
    /\ count = 0
    /\ change_series = <<>>
    /\ mask = <<>>
    /\ warned = FALSE
    /\ exc = ""
    /\ data_to_save = "unset"
    /\ df_id = RawId
    /\ arg_id = RawId
    /\ arg_now = <<>>
    /\ ids = 0
    /\ \E file \in CodeFiles : DriverStart(file)

(* main.py lines 276-280: the code list is read; a missing file raises and ends the run *)
ReadCodes ==
    /\ main_pc = "start"
    /\ IF code_file.exists
       THEN /\ codes' = get_unique_csi300_codes(code_file)
            /\ main_pc' = "loop"
       ELSE /\ codes' = codes
            /\ main_pc' = "raised"
    /\ UNCHANGED <<code_file, processed, success_count, failed_count, failed_codes>>
    /\ UNCHANGED pipe_vars

(* one turn of the for loop, main.py lines 300-319 *)
ProcessItem ==
    /\ main_pc = "loop"
    /\ Len(processed) < Len(codes)
    /\ LET item == codes[Len(processed) + 1]
       IN  \E outcome \in FetchOutcomes :
               LET result == fetch_and_save_data(outcome)
               IN  /\ processed' = Append(processed, item)
                   /\ IF result # "None"
                      THEN /\ success_count' = success_count + 1
                           /\ UNCHANGED <<failed_count, failed_codes>>
                      ELSE /\ failed_count' = failed_count + 1
                           /\ failed_codes' = log_stock_failure(failed_codes, item)
                           /\ UNCHANGED success_count
    /\ UNCHANGED <<code_file, codes, main_pc>>
    /\ UNCHANGED pipe_vars

(* main.py line 322: the loop is over, the summary is logged *)
Summary ==
    /\ main_pc = "loop"
    /\ Len(processed) = Len(codes)
    /\ main_pc' = "done"
    /\ UNCHANGED <<code_file, codes, processed, success_count, failed_count, failed_codes>>
    /\ UNCHANGED pipe_vars

NextDriver ==
    \/ ReadCodes
    \/ ProcessItem
    \/ Summary

SpecDriver == InitDriver /\ [][NextDriver]_vars

-----------------------------------------------------------------------------
(* Properties *)

(* the table after lines 224-257, recomputed from the inputs *)
Aligned == Align(map_wind_fields(raw_data), calendar_list)[2]

AllNull(r, cols) == \A k \in cols : IsNaN(r[k])

NwdRan == pc = "nwd_returned" /\ raw_data # <<>>

(* C1: in the table normalize_wind_data returns, every row whose volume is  *)
(* <= 0 or null, in the aligned table or in the returned one, has open,     *)
(* high, low, close, volume, amount, adjclose and change null.              *)
C1_InvalidRowsNull ==
    NwdRan =>
        /\ Len(df) = Len(Aligned)
        /\ \A i \in 1..Len(df) :
               (InvalidVolume(Aligned[i]) \/ InvalidVolume(df[i]))
                   => /\ "change" \in Cols(df)
                      /\ Cols(Aligned) \subseteq Cols(df)
                      /\ AllNull(df[i], Cols(df))

(* a zero-volume row with prices and amount, after a row with a valid close *)
C1_Witness ==
    /\ NwdRan
    /\ \E i \in 2..Len(df) :
           /\ Aligned[i]["volume"] = Float(0)
           /\ NotNull(Aligned[i]["close"])
           /\ NotNull(Aligned[i]["open"])
           /\ NotNull(Aligned[i]["amount"])
           /\ ~InvalidVolume(Aligned[i - 1])
           /\ NotNull(Aligned[i - 1]["close"])

RawDates == {raw_data[i]["TRADE_DT"] : i \in 1..Len(raw_data)}

CalendarDates == {calendar_list.list[i] : i \in 1..Len(calendar_list.list)}

(* C2: with a calendar loaded, the aligned dates are exactly the calendar   *)
(* dates between the smallest and the largest raw date; without one they    *)
(* are the raw dates, one row each.                                         *)
C2_AlignedDateSet ==
    pc = "aligned" =>
        IF calendar_list.isNone
        THEN Dates(df) = RawDates /\ Len(df) = Cardinality(RawDates)
        ELSE Dates(df) = {d \in CalendarDates : SetMin(RawDates) <= d /\ d <= SetMax(RawDates)}

(* C3: the aligned table has no two rows with the same date, is in          *)
(* ascending date order, and a raw date keeps the values of its first row.  *)
C3_UniqueSortedFirstWins ==
    pc = "aligned" =>
        /\ \A i, j \in 1..Len(df) : i < j => df[i][DATE] < df[j][DATE]
        /\ \A i \in 1..Len(df) :
               df[i][DATE] \in RawDates =>
                   LET first == SetMin({j \in 1..Len(raw_data) :
                                           raw_data[j]["TRADE_DT"] = df[i][DATE]})
                   IN  df[i] = map_wind_fields(raw_data)[first]

Normalized == pc = "returned" /\ raw_data # <<>>

GapRows == {i \in 1..Len(df) : df[i][DATE] \notin RawDates}

IsScenario == raw_data = ScenarioRaw /\ calendar_list = _load_calendar(ScenarioFile)

(* C4, as amended: in the table normalize returns, every row for a calendar *)
(* date without a raw record is null in every column but the date and the   *)
(* factor; the scenario yields 4 rows, 20240102 to 20240105, and its        *)
(* 20240104 row is null in every column but factor, which is 1/10.          *)
C4_GapRowsNullButFactor ==
    Normalized =>
        /\ \A i \in GapRows : AllNull(df[i], Cols(df) \ {"factor"})
        /\ IsScenario =>
               /\ Len(df) = 4
               /\ [i \in 1..4 |-> df[i][DATE]] = <<20240102, 20240103, 20240104, 20240105>>
               /\ GapRows = {3}
               /\ df[3]["factor"] = Rat(1, 10)

(* the scenario has run and its gap row carries a factor *)
C4_Witness ==
    /\ Normalized
    /\ IsScenario
    /\ \E i \in GapRows : df[i][DATE] = 20240104 /\ NotNull(df[i]["factor"])

(* C4, as stated: every non-date column of such a row is null, and the *)
(* scenario yields 4 rows with a fully null 20240104 row               *)
C4_GapRowsFullyNull ==
    Normalized =>
        /\ \A i \in GapRows : AllNull(df[i], Cols(df))
        /\ IsScenario => Len(df) = 4 /\ AllNull(df[3], Cols(df))

(* _manual_adj_data has run on the non-empty table arg and returned df *)
Rebased == pc = "returned" /\ arg # <<>>

ValidCloses == {i \in 1..Len(arg) : NotNull(arg[i]["close"])}

FirstValid == SetMin(ValidCloses)

Finite(x) == x.d # 0

(* C5, as amended: with c0 the close of the first row, in ascending date    *)
(* order, whose close is non-null, _manual_adj_data multiplies volume by    *)
(* c0, divides every other column except adjclose and change by c0 and      *)
(* leaves adjclose and change unchanged; the rebased volume of that row is  *)
(* volume0 * c0 and, when c0 is finite and not zero, its rebased close is 1.*)
C5_RebasedByFirstClose ==
    (Rebased /\ ValidCloses # {}) =>
        LET c0 == arg[FirstValid]["close"]
        IN  /\ \A i, j \in 1..Len(arg) : i < j => arg[i][DATE] <= arg[j][DATE]
            /\ Len(df) = Len(arg)
            /\ \A i \in 1..Len(arg) :
                   /\ DOMAIN df[i] = DOMAIN arg[i]
                   /\ df[i][DATE] = arg[i][DATE]
                   /\ \A k \in Cols(arg) :
                          df[i][k] = CASE k = "volume" -> Mul(arg[i][k], c0)
                                       [] k \in {"adjclose", "change"} -> arg[i][k]
                                       [] OTHER -> Div(arg[i][k], c0)
            /\ df[FirstValid]["volume"] = Mul(arg[FirstValid]["volume"], c0)
            /\ (Finite(c0) /\ c0.n # 0) => df[FirstValid]["close"] = Float(1)

(* the first valid close is not in the first row and is not 1 *)
C5_Witness ==
    /\ Rebased
    /\ ValidCloses # {}
    /\ FirstValid > 1
    /\ Finite(arg[FirstValid]["close"])
    /\ arg[FirstValid]["close"] \notin {Float(0), Float(1)}
    /\ df[FirstValid]["close"] = Float(1)
    /\ NotNull(df[FirstValid]["volume"])
    /\ df[FirstValid]["volume"] # arg[FirstValid]["volume"]

(* C5, as stated: the rebased close of the first valid row is 1 and its *)
(* rebased volume is volume0 * c0                                       *)
C5_FirstCloseIsOne ==
    (Rebased /\ ValidCloses # {}) =>
        /\ df[FirstValid]["close"] = Float(1)
        /\ df[FirstValid]["volume"] = Mul(arg[FirstValid]["volume"], arg[FirstValid]["close"])

(* C6: when no row has a non-null close, _manual_adj_data changes no cell *)
C6_NoOpWithoutClose ==
    (Rebased /\ ValidCloses = {}) => df = arg

(* C7: a series without any valid close is not handed on the way a rebased *)
(* series is: fetch_and_save_data does not save it as normalized_data      *)
C7_UnusableDistinguished ==
    (pc = "saved" /\ exc = "" /\ arg # <<>> /\ ValidCloses = {})
        => data_to_save # "normalized_data"

(* the table on which the while loop starts *)
LoopInput == FfillAndMask(Aligned)

LoopDone == pc = "looped"

(* the change of the table as it stands lies in [89, 111] on some row *)
Residual == \E i \in 1..Len(df) : Flagged(calc_change(df, last_close)[i])

(* row j of t has every price field at 100 times the level the other rows *)
(* share, all volumes are valid, and row j has a predecessor at that level *)
Spike(t, j) ==
    LET ref  == IF j = 1 THEN 2 ELSE 1
        cols == PRICE_COLS \cap Cols(t)
    IN  /\ Len(t) >= 2
        /\ j \in 1..Len(t)
        /\ \A i \in 1..Len(t) : ~InvalidVolume(t[i])
        /\ \A k \in cols :
               /\ Finite(t[ref][k]) /\ t[ref][k].n > 0
               /\ \A i \in 1..Len(t) : i # j => t[i][k] = t[ref][k]
               /\ t[j][k] = Mul(Float(100), t[ref][k])
        /\ j > 1 \/ (~last_close.isNone /\ last_close.value = t[ref]["close"])

(* C8: the loop never makes more than 10 correction passes, every turn that *)
(* stays in the loop is one more pass, and on a series with a single row at *)
(* 100 times its neighbours' level it makes exactly one pass, after which   *)
(* that row's price fields are at the neighbours' level and no row is       *)
(* flagged.                                                                 *)
C8_LoopBoundedSpikeFixed ==
    /\ [](count <= MaxCount /\ (pc = "loop" => count < MaxCount))
    /\ [][pc = "loop" => (pc' # "loop" \/ count' = count + 1)]_vars
    /\ [](LoopDone =>
            \A j \in 1..Len(LoopInput) :
                Spike(LoopInput, j) =>
                    /\ count = 1
                    /\ \A k \in PRICE_COLS \cap Cols(df) :
                           df[j][k] = LoopInput[IF j = 1 THEN 2 ELSE 1][k]
                    /\ ~Residual
                    /\ ~warned)

(* the loop has ended on a series with a 100x row *)
C8_Witness ==
    /\ LoopDone
    /\ \E j \in 2..(Len(LoopInput) - 1) : Spike(LoopInput, j)
    /\ count = 1

(* C9, as amended: the warning is emitted exactly when the loop has made 10 *)
(* correction passes, each after a detection that flagged a row; the table  *)
(* as last corrected is not examined again and may hold no flagged row;     *)
(* when no warning is emitted it holds none.                                *)
C9_WarningIffTenPasses ==
    LoopDone =>
        /\ warned <=> count = MaxCount
        /\ warned => \E i \in 1..Len(mask) : mask[i]
        /\ ~warned => ~Residual

(* the warning after a tenth pass that left no flagged row *)
C9_Witness == LoopDone /\ warned /\ count = 10 /\ ~Residual

(* C9, as stated: a warning means the corrected table still has a flagged row *)
C9_WarningMeansResidual ==
    LoopDone => (warned => Residual) /\ (~Residual => ~warned)

InBand(c) == Finite(c) /\ BandLow * c.d <= c.n /\ c.n <= BandHigh * c.d

(* C10: a correction pass flags exactly the rows whose change c has         *)
(* 89 <= c <= 111, divides high, close, low, open and adjclose of those     *)
(* rows by 100 and changes no other cell.                                   *)
C10_OnePass ==
    [][(pc = "loop" /\ pc' \in {"loop", "looped"}) =>
          /\ Len(df') = Len(df)
          /\ Len(mask') = Len(df)
          /\ \A i \in 1..Len(df) :
                 LET c == calc_change(df, last_close)[i]
                 IN  /\ mask'[i] = InBand(c)
                     /\ DOMAIN df'[i] = DOMAIN df[i]
                     /\ \A k \in DOMAIN df[i] :
                            df'[i][k] =
                                IF InBand(c) /\ k \in {"high", "close", "low", "open", "adjclose"}
                                THEN Div(df[i][k], Float(100))
                                ELSE df[i][k]]_vars

(* a pass has corrected a row whose change was exactly 89 and left another *)
C10_Witness ==
    /\ pc \in {"loop", "looped"}
    /\ count >= 1
    /\ \E i, j \in 1..Len(mask) :
           /\ mask[i] /\ change_series[i] = Float(89)
           /\ ~mask[j]

(* the close of the latest row up to i whose close is non-null, null if none *)
CloseFfill(t, i) ==
    LET prev == {j \in 1..i : NotNull(t[j]["close"])}
    IN  IF prev = {} THEN NaN ELSE t[SetMax(prev)]["close"]

ExpectedChange(t, seed) ==
    [i \in 1..Len(t) |->
        IF i > 1 THEN Sub(Div(CloseFfill(t, i), CloseFfill(t, i - 1)), Float(1))
        ELSE IF seed.isNone THEN NaN
        ELSE Sub(Div(CloseFfill(t, 1), seed.value), Float(1))]

(* C11: every detection of the loop yields, for row t > 0,                  *)
(* close_ffill[t] / close_ffill[t-1] - 1 and for row 0 the change against   *)
(* last_close, null without one; the detection leaves the table as it was   *)
(* (a pass that flags nothing changes no cell), and the call of line 288 on *)
(* the table of the last detection returns what that detection returned.    *)
C11_ChangeContract ==
    /\ [][(pc = "loop" /\ pc' \in {"loop", "looped"}) =>
            /\ change_series' = ExpectedChange(df, last_close)
            /\ (\A i \in 1..Len(df) : ~Flagged(change_series'[i])) => df' = df]_vars
    /\ []((NwdRan /\ ~warned) =>
            \A i \in 1..Len(df) :
                ~InvalidVolume(df[i]) => df[i]["change"] = change_series[i])

(* a detection has bridged a nulled row: the change of the row after it is *)
(* taken against the close before it                                       *)
C11_Witness ==
    /\ pc = "looped"
    /\ \E i \in 3..Len(df) :
           /\ IsNaN(df[i - 1]["close"])
           /\ NotNull(df[i - 2]["close"])
           /\ NotNull(change_series[i])
           /\ change_series[i] = Sub(Div(df[i]["close"], df[i - 2]["close"]), Float(1))

BadDivisor(x) == IsNaN(x) \/ x = Float(0)

(* C12: a null or zero divisor gives a null cell: in the table              *)
(* normalize_wind_data returns, the change of a valid row whose prior       *)
(* forward-filled close (last_close for row 0) is null or zero is null; in  *)
(* the table _manual_adj_data returns, every cell divided by a null or zero *)
(* c0 is null.                                                              *)
C12_NullOnBadDivisor ==
    /\ NwdRan =>
           \A i \in 1..Len(df) :
               LET prior == IF i > 1 THEN CloseFfill(df, i - 1) ELSE last_close.value
               IN  (~InvalidVolume(df[i]) /\ BadDivisor(prior)) => IsNaN(df[i]["change"])
    /\ (Rebased /\ BadDivisor(_get_first_close(arg))) =>
           \A i \in 1..Len(df) :
               \A k \in Cols(df) \ {"adjclose", "change", "volume"} : IsNaN(df[i][k])

(* adjusted_price has run on the non-empty table arg and returned df *)
Adjusted == pc = "adjusted" /\ arg # <<>>

(* adjclose / close of the latest row up to i where that ratio is non-null *)
FactorAt(t, i) ==
    LET prev == {j \in 1..i : NotNull(Div(t[j]["adjclose"], t[j]["close"]))}
    IN  IF prev = {} THEN NaN
        ELSE LET j == SetMax(prev) IN Div(t[j]["adjclose"], t[j]["close"])

(* C13: with an adjclose column the factor of a row is adjclose / close,    *)
(* a null one replaced by the latest earlier non-null one and null before   *)
(* the first; without the column it is 1; open, high, low and close are     *)
(* multiplied by it, volume is divided by it, every other column (amount,   *)
(* adjclose, change, date) is unchanged.                                    *)
C13_FactorApplied ==
    Adjusted =>
        /\ Len(df) = Len(arg)
        /\ \A i \in 1..Len(arg) :
               LET f == IF "adjclose" \in Cols(arg) THEN FactorAt(arg, i) ELSE Float(1)
               IN  /\ DOMAIN df[i] = DOMAIN arg[i] \cup {"factor"}
                   /\ df[i]["factor"] = f
                   /\ \A k \in {"open", "high", "low", "close"} : df[i][k] = Mul(arg[i][k], f)
                   /\ df[i]["volume"] = Div(arg[i]["volume"], f)
                   /\ \A k \in DOMAIN arg[i] \ COLUMNS : df[i][k] = arg[i][k]

(* a valid row with a null adjclose has taken the factor 2 of the row before it *)
C13_Witness ==
    /\ Adjusted
    /\ "adjclose" \in Cols(arg)
    /\ \E i \in 2..Len(arg) :
           /\ IsNaN(arg[i]["adjclose"])
           /\ NotNull(arg[i]["close"])
           /\ NotNull(arg[i]["amount"])
           /\ df[i]["factor"] = Float(2)
           /\ df[i]["close"] = Mul(arg[i]["close"], Float(2))
           /\ df[i]["volume"] = Div(arg[i]["volume"], Float(2))
           /\ df[i]["volume"] # arg[i]["volume"]

EqualAdj == "adjclose" \in Cols(arg) /\ \A i \in 1..Len(arg) : arg[i]["adjclose"] = arg[i]["close"]

Usable(x) == Finite(x) /\ x # Float(0)

(* C14, as amended: if adjclose equals close on every row, then from the    *)
(* first row whose close is non-null, finite and not zero onward the factor *)
(* is 1 and open, high, low, close and volume are unchanged; on the rows    *)
(* before it the factor is null and these five columns are null.            *)
C14_FactorOneFromFirstUsable ==
    (Adjusted /\ EqualAdj) =>
        \A i \in 1..Len(arg) :
            IF \E j \in 1..i : Usable(arg[j]["close"])
            THEN /\ df[i]["factor"] = Float(1)
                 /\ \A k \in COLUMNS : df[i][k] = arg[i][k]
            ELSE /\ IsNaN(df[i]["factor"])
                 /\ \A k \in COLUMNS : IsNaN(df[i][k])

(* a zero close after a usable one keeps the factor 1 and its values *)
C14_Witness ==
    /\ Adjusted
    /\ EqualAdj
    /\ \E i \in 2..Len(arg) :
           /\ Usable(arg[i - 1]["close"])
           /\ arg[i]["close"] = Float(0)
           /\ df[i]["factor"] = Float(1)
           /\ df[i]["open"] = arg[i]["open"]
           /\ NotNull(df[i]["open"])

(* C14, as stated: if adjclose equals close on every row, the factor is 1 *)
(* on every row and open, high, low, close and volume are unchanged       *)
C14_FactorOneEverywhere ==
    (Adjusted /\ EqualAdj) =>
        \A i \in 1..Len(arg) :
            /\ df[i]["factor"] = Float(1)
            /\ \A k \in COLUMNS : df[i][k] = arg[i][k]

(* normalize has been applied to the table arg, itself returned by normalize *)
Renormalized == pc = "renormalized"

(* the first valid close of a table, the reference its rebasing left behind *)
Anchor(t) == _get_first_close(t)

(* the table the second run hands to its rebasing stage *)
SecondAdjusted ==
    adjusted_price(ChangeAndMask(
        OutlierLoop(FfillAndMask(Align(map_wind_fields(arg), calendar_list)[2]), last_close, 0),
        last_close))

(* the second call is on a non-empty output anchored at 1, no calendar loaded *)
Rerun == Renormalized /\ arg # <<>> /\ calendar_list.isNone /\ Anchor(arg) = Float(1)

StageReturned == pc \in {"nwd_returned", "adjusted", "returned", "renormalized"}

(* C16: when a stage returns, the table it was passed holds what it held    *)
(* before the call and the table returned is another object than the one    *)
(* passed; the table normalize returns is another object than the caller's. *)
C16_OwnCopy ==
    /\ StageReturned => (arg_now = arg /\ df_id # arg_id)
    /\ pc = "returned" => df_id # RawId

(* C17: the calendar list the reindexing uses is in ascending order and *)
(* holds each date once                                                 *)
C17_CalendarAscendingUnique ==
    ~calendar_list.isNone =>
        \A i, j \in 1..Len(calendar_list.list) :
            i < j => calendar_list.list[i] < calendar_list.list[j]

CodesRead == main_pc \in {"loop", "done"}

(* the stripped first cells of the rows that are neither empty nor a header *)
DataRows == {i \in 1..Len(code_file.rows) :
                code_file.rows[i] # <<>> /\ lower(code_file.rows[i][1].text) \notin HEADER_WORDS}

DistinctCodes == {code_file.rows[i][1].text : i \in DataRows}

FirstRow(s) == SetMin({i \in DataRows : code_file.rows[i][1].text = s})

(* C18: the list read has one record per distinct code of the file, header  *)
(* and empty rows skipped, in order of first occurrence; its length is the  *)
(* number of distinct codes analyze_csi300_codes counts; no two records     *)
(* share an original_symbol; every record has the range 2008-01-01 to       *)
(* 2025-08-01.                                                              *)
C18_OneRecordPerCode ==
    CodesRead =>
        /\ {codes[k].original_symbol : k \in 1..Len(codes)} = DistinctCodes
        /\ Len(codes) = Cardinality(DistinctCodes)
        /\ Len(codes) = analyze_csi300_codes(code_file).unique_codes
        /\ \A a, b \in 1..Len(codes) :
               /\ a # b => codes[a].original_symbol # codes[b].original_symbol
               /\ a < b => FirstRow(codes[a].original_symbol) < FirstRow(codes[b].original_symbol)
        /\ \A k \in 1..Len(codes) :
               codes[k].start_date = "2008-01-01" /\ codes[k].end_date = "2025-08-01"

(* a file with a header, a code that comes back after another one, once *)
(* with blanks around it: two records                                   *)
C18_Witness ==
    /\ CodesRead
    /\ Len(code_file.rows) = 4
    /\ \E i \in 1..4 : code_file.rows[i] # <<>> /\ i \notin DataRows
    /\ \E i, j \in DataRows :
           /\ i + 1 < j
           /\ code_file.rows[i][1].text = code_file.rows[j][1].text
           /\ code_file.rows[i][1].pad # code_file.rows[j][1].pad
    /\ Len(codes) = 2

(* C19: in the driver loop the items passed to fetch_and_save_data so far   *)
(* are the first items of the list, each once and in list order, whatever   *)
(* the calls before returned; each is counted once, as a success or as a    *)
(* failure, and failed_codes has one entry per failure; the loop ends only  *)
(* when every item has been passed, so that then success_count +            *)
(* failed_count is the number of symbols.                                   *)
C19_EverySymbolOnce ==
    CodesRead =>
        /\ Len(processed) <= Len(codes)
        /\ processed = SubSeq(codes, 1, Len(processed))
        /\ success_count + failed_count = Len(processed)
        /\ Len(failed_codes) = failed_count
        /\ main_pc = "done" =>
               /\ processed = codes
               /\ success_count + failed_count = Len(codes)

(* the first symbol failed and the symbols after it were processed, one of *)
(* them with success                                                       *)
C19_Witness ==
    /\ main_pc = "done"
    /\ Len(codes) >= 3
    /\ failed_count >= 1
    /\ failed_codes[1].original_symbol = codes[1].original_symbol
    /\ success_count >= 1
    /\ Len(processed) = Len(codes)

(* C20: when the loop has ended after fewer than 10 correction passes, and *)
(* so without the warning, no row of the table normalize_wind_data returns *)
(* has a change c with 89 <= c <= 111.                                     *)
C20_NoBandChangeReturned ==
    (NwdRan /\ count < MaxCount) =>
        /\ ~warned
        /\ \A i \in 1..Len(df) : ~InBand(df[i]["change"])

(* a table returned after some, but fewer than 10, passes, with a non-null change *)
C20_Witness ==
    /\ NwdRan
    /\ ~warned
    /\ count >= 2
    /\ count < MaxCount
    /\ \E i \in 1..Len(df) : NotNull(df[i]["change"])

(* the table normalize_wind_data returns for the input, computed from the *)
(* aligned table: the one adjusted_price is given in normalize            *)
Unadjusted == ChangeAndMask(OutlierLoop(LoopInput, last_close, 0), last_close)

(* rows of t with a non-null close other than 0 and a non-null adjclose *)
Priced(t) ==
    {i \in 1..Len(t) : /\ NotNull(t[i]["close"])
                       /\ t[i]["close"] # Float(0)
                       /\ NotNull(t[i]["adjclose"])}

EarlierCloses(i) == {j \in 1..(i - 1) : NotNull(Aligned[j]["close"])}

(* the raw close of the nearest earlier row that has one *)
Carry(i) == Aligned[SetMax(EarlierCloses(i))]["close"]

(* rows with valid volume and a null raw close that have an earlier raw close *)
Carried ==
    {i \in 1..Len(Aligned) : /\ ~InvalidVolume(Aligned[i])
                             /\ IsNaN(Aligned[i]["close"])
                             /\ EarlierCloses(i) # {}}

(* x divided k times by 100, as the correction of line 281 does *)
RECURSIVE Scaled(_, _)
Scaled(x, k) == IF k = 0 THEN x ELSE Div(Scaled(x, k - 1), Float(ScaleDown))

(* the number of passes of the loop of lines 274-285, started on t after n *)
(* passes, whose mask holds row i                                          *)
RECURSIVE Corrections(_, _, _, _)
Corrections(t, seed, n, i) ==
    LET _mask == OutlierMask(calc_change(t, seed))
    IN  IF \A j \in 1..Len(_mask) : ~_mask[j] THEN 0
        ELSE (IF _mask[i] THEN 1 ELSE 0)
             + (IF Exhausted(n + 1) THEN 0
                ELSE Corrections(CorrectOutliers(t, _mask), seed, n + 1, i))

(* C22, as amended: in the table normalize_wind_data returns, a row with    *)
(* invalid volume has a null close; a row with valid volume and a null raw  *)
(* close has the raw close of the nearest earlier row with a non-null raw   *)
(* close, whether or not that row was nulled for invalid volume, divided by *)
(* 100 once for every correction pass that flagged the row, so exactly that *)
(* raw close when no pass flagged it; with no earlier raw close it is null. *)
C22_CarriedCloseScaled ==
    NwdRan =>
        \A i \in 1..Len(df) :
            /\ InvalidVolume(Aligned[i]) => IsNaN(df[i]["close"])
            /\ i \in Carried =>
                   df[i]["close"] = Scaled(Carry(i), Corrections(LoopInput, last_close, 0, i))
            /\ (~InvalidVolume(Aligned[i]) /\ IsNaN(Aligned[i]["close"]) /\ EarlierCloses(i) = {}) =>
                   IsNaN(df[i]["close"])

(* a row with valid volume and no raw close holds the raw close of the row *)
(* before it, which was nulled for its invalid volume                       *)
C22_Witness ==
    /\ NwdRan
    /\ \E i \in Carried :
           LET j == SetMax(EarlierCloses(i))
           IN  /\ InvalidVolume(Aligned[j])
               /\ IsNaN(df[j]["close"])
               /\ NotNull(df[i]["close"])
               /\ df[i]["close"] = Aligned[j]["close"]

(* C22 as stated: the carried close is the raw close itself *)
C22_CarriesRawClose ==
    NwdRan =>
        \A i \in 1..Len(df) :
            /\ InvalidVolume(Aligned[i]) => IsNaN(df[i]["close"])
            /\ i \in Carried => df[i]["close"] = Carry(i)

=============================================================================
